---- MODULE Spec2Model ----
(***************************************************************************)
(* Model of PDFInverter.invert_colors (src/pdf_convert.py).                *)
(*                                                                         *)
(* Python strings are sequences of one-character strings, so that          *)
(* str.lower, str.endswith and os.path.splitext are computed character by  *)
(* character.  The disk is a function from the paths that exist to file    *)
(* contents.  One call of invert_colors is a sequence of steps (pc), one   *)
(* per statement group of the routine; a library call either completes or  *)
(* raises, and a raise runs the handler of lines 72-73.                    *)
(***************************************************************************)
EXTENDS Integers, Sequences, FiniteSets, TLC

(* ------------------------------ bounds --------------------------------- *)
MaxPages == 2
MaxCalls == 2

(* ----------------------- literals of the program ----------------------- *)
\* fitz.Matrix(2, 2): the rendering zoom in each dimension
Scale == 2
\* largest channel value of the 8-bit image ImageOps.invert works on
ChannelMax == 255

DotPdf == <<".", "p", "d", "f">>
SuffixInverted == <<"_", "i", "n", "v", "e", "r", "t", "e", "d">>
Sep == "/"
ExtSep == "."

MsgNotFound == "Input file not found: "
MsgMustBePdf == "Input file must be a PDF"
MsgSuccess == "Successfully inverted PDF colors: "
MsgError == "Error inverting PDF colors: "

(* --------------------------- string helpers ---------------------------- *)
\* str.lower() on one character of the alphabet used by the paths below
LowerChar(c) ==
  CASE c = "P" -> "p"
    [] c = "D" -> "d"
    [] c = "F" -> "f"
    [] OTHER -> c

\* input_path.lower()
Lower(s) == [i \in 1..Len(s) |-> LowerChar(s[i])]

\* s.endswith(suf)
EndsWith(s, suf) ==
  /\ Len(s) >= Len(suf)
  /\ SubSeq(s, Len(s) - Len(suf) + 1, Len(s)) = suf

\* s.rfind(c), 1-based; 0 when c does not occur
RFind(s, c) ==
  LET hits == {i \in 1..Len(s) : s[i] = c}
  IN  IF hits = {} THEN 0 ELSE CHOOSE i \in hits : \A j \in hits : j <= i

SplitExtNoLeadingDotRule(p) ==
  LET dotIndex == RFind(p, ExtSep)
  IN  IF dotIndex > RFind(p, Sep)
        THEN <<SubSeq(p, 1, dotIndex - 1), SubSeq(p, dotIndex, Len(p))>>
        ELSE <<p, <<>>>>

\* os.path.splitext(p): split at the last dot of the last path component,
\* unless that component has only dots before it (a leading-dot name)
SplitExt(p) ==
  LET sepIndex == RFind(p, Sep)
      dotIndex == RFind(p, ExtSep)
  IN  IF /\ dotIndex > sepIndex
         /\ \E k \in (sepIndex + 1)..(dotIndex - 1) : p[k] # ExtSep
        THEN <<SubSeq(p, 1, dotIndex - 1), SubSeq(p, dotIndex, Len(p))>>
        ELSE <<p, <<>>>>

ExtensionCheckCaseSensitive(p) == EndsWith(p, DotPdf)

\* line 29: input_path.lower().endswith('.pdf')
HasPdfExtension(p) == EndsWith(Lower(p), DotPdf)

\* line 35: f"{file_name}_inverted{file_ext}"
DerivedOutputPath(p) == SplitExt(p)[1] \o SuffixInverted \o SplitExt(p)[2]

(* ------------------------------ inputs --------------------------------- *)
Dirs == {<<>>, <<"d", ".", "x", "/">>}
Stems == {<<>>, <<"a">>}
Exts == {<<>>, DotPdf, <<".", "P", "D", "F">>, <<".", "P", "d", "f">>,
         <<".", "t", "x", "t">>, <<"p", "d", "f">>}

\* the input paths a caller may pass
InputPaths == {d \o s \o e : d \in Dirs, s \in Stems, e \in Exts}

\* the paths that exist on disk before the first call
ExistingPaths ==
  { <<"a">> \o DotPdf,
    <<"a", ".", "P", "d", "f">>,
    <<"d", ".", "x", "/", ".", "P", "D", "F">>,
    <<"a", ".", "t", "x", "t">>,
    <<"a", "p", "d", "f">>,
    <<"d", ".", "x", "/", "a">> }

\* an explicit output path
OtherOutput == <<"o">> \o DotPdf

\* pages: width, height and the channel value the page renders to
PageKinds == { [w |-> 3, h |-> 4, px |-> 0],
               [w |-> 4, h |-> 3, px |-> ChannelMax] }

RECURSIVE SeqsUpTo(_, _)
SeqsUpTo(S, n) ==
  IF n = 0 THEN {<<>>}
  ELSE LET shorter == SeqsUpTo(S, n - 1)
       IN  shorter \cup {Append(q, x) : q \in {r \in shorter : Len(r) = n - 1}, x \in S}

\* a file is a PDF with a page sequence, or bytes that are no PDF
\* ("junk": not a document; "partial": what an interrupted save left)
PdfFile(pages) == [kind |-> "pdf", pages |-> pages]
JunkFile == [kind |-> "junk", pages |-> <<>>]
PartialFile == [kind |-> "partial", pages |-> <<>>]
Contents == {JunkFile} \cup {PdfFile(ps) : ps \in SeqsUpTo(PageKinds, MaxPages)}

\* str(e) of the exceptions the libraries raise
ExcTexts == {<<"e", "r", "r">>}

(* ------------------------------- state --------------------------------- *)
VARIABLES
  fs,            \* the disk: existing path -> file content
  calls,         \* number of calls of invert_colors started
  pc,            \* position of the current call
  input_path,    \* argument input_path
  output_arg,    \* argument output_path: [given, path]; given = FALSE is None
  output_path,   \* local output_path after lines 33-35
  pdf_document,  \* fitz.open(input_path): [state, pages]
  output_pdf,    \* fitz.open(): [state, pages]
  page_num,      \* loop variable (0-based; -1 before the loop)
  pix,           \* page.get_pixmap(...) of the current page
  img,           \* ImageOps.invert(...) of the current page
  result,        \* the returned tuple: [returned, flag, msg]
  escaped,       \* an exception propagated to the caller
  fsAtCall,      \* history: the disk when the current call started
  opens,         \* history: fitz.open calls made by the current call
  writes,        \* history: paths the current call's save wrote to, in order
  derivedBy,     \* history: input path -> paths derived for it when no
                 \*          output path was given (over all calls)
  exc            \* history: str(e) of the exception the current call raised

vars == <<fs, calls, pc, input_path, output_arg, output_path, pdf_document,
          output_pdf, page_num, pix, img, result, escaped, fsAtCall, opens,
          writes, derivedBy, exc>>

NoExc == <<>>

NoDoc == [state |-> "none", pages |-> <<>>]
NoPix == [w |-> 0, h |-> 0, px |-> 0]
NoResult == [returned |-> FALSE, flag |-> FALSE, msg |-> <<"", <<>>>>]
NoOutput == [given |-> FALSE, path |-> <<>>]

Init ==
  /\ \E c \in Contents : fs = [p \in ExistingPaths |-> c]
  /\ calls = 0
  /\ pc = "idle"
  /\ input_path = <<>>
  /\ output_arg = NoOutput
  /\ output_path = <<>>
  /\ pdf_document = NoDoc
  /\ output_pdf = NoDoc
  /\ page_num = -1
  /\ pix = NoPix
  /\ img = NoPix
  /\ result = NoResult
  /\ escaped = FALSE
  /\ fsAtCall = fs
  /\ opens = 0
  /\ writes = <<>>
  /\ derivedBy = [p \in InputPaths |-> {}]
  /\ exc = NoExc

(* ------------------- the pieces of the page loop ----------------------- *)
\* line 42: range(pdf_document.page_count)
PageRange(doc) == 0..(Len(doc.pages) - 1)

\* line 43: pdf_document[page_num]
PageAt(doc, n) == doc.pages[n + 1]

\* lines 46-50: the page rendered through fitz.Matrix(2, 2)
GetPixmap(page) == [w |-> Scale * page.w, h |-> Scale * page.h, px |-> page.px]

InvertOffByOne(v) == (ChannelMax + 1) - v

\* line 53: ImageOps.invert on one channel value
Invert(v) == ChannelMax - v

\* line 53: ImageOps.invert(img), every pixel of the bitmap
InvertImage(bitmap) == [bitmap EXCEPT !.px = Invert(bitmap.px)]

Rect(w, h) == [x0 |-> 0, y0 |-> 0, x1 |-> w, y1 |-> h]

NewPageBitmapSized(page, bitmap, n) ==
  [w |-> bitmap.w, h |-> bitmap.h, rect |-> Rect(0, 0), bitmap |-> NoPix, src |-> n]

\* lines 61-62: output_pdf.new_page(width=page.rect.width, height=page.rect.height);
\* src records the input page index the new page is made for
NewPage(page, bitmap, n) ==
  [w |-> page.w, h |-> page.h, rect |-> Rect(0, 0), bitmap |-> NoPix, src |-> n]

\* line 63: new_page.insert_image(new_page.rect, stream=img_byte_arr)
InsertImageInto(new_page, bitmap) ==
  [new_page EXCEPT !.rect = Rect(new_page.w, new_page.h), !.bitmap = bitmap]

NewPagePrepends(doc, new_page) == [doc EXCEPT !.pages = <<new_page>> \o @]

\* new_page() without a page number appends at the end of the document
AddPage(doc, new_page) == [doc EXCEPT !.pages = Append(@, new_page)]

\* what a saved output page is when read back: its size and the pixels shown
SavedPage(op) == [w |-> op.w, h |-> op.h, px |-> op.bitmap.px]
SavedFile(doc) == PdfFile([i \in 1..Len(doc.pages) |-> SavedPage(doc.pages[i])])

WriteFile(disk, path, content) ==
  [p \in (DOMAIN disk) \cup {path} |-> IF p = path THEN content ELSE disk[p]]

AfterPageSavesEarly == "save"

\* the end of the loop body (line 63) goes back to the loop head (line 42)
AfterPage == "loop"

(* --------------------- try / except, lines 24-73 ----------------------- *)
TrySteps == {"check_exists", "check_ext", "derive", "open_in", "open_out", "loop",
             "render", "invert", "new_page", "insert_image", "save", "close_out",
             "close_in", "return_ok"}

\* the library calls that can raise: opening, rendering, inverting, page
\* creation and saving; close() of an open document and the pure string
\* operations of lines 26-35 do not
RaisingSteps == {"open_in", "open_out", "render", "invert", "new_page",
                 "insert_image", "save"}

InTryUpToLoop(step) == step \in TrySteps \ {"save"}

\* the step is inside the try block
InTry(step) == step \in TrySteps

Return(flag, msg) ==
  /\ result' = [returned |-> TRUE, flag |-> flag, msg |-> msg]
  /\ pc' = "returned"

\* lines 72-73: except Exception as e: return False, f"Error ...: {str(e)}"
\* line 73: f"Error inverting PDF colors: {str(e)}"
ErrorMessage(e) == <<MsgError, e>>

Handle(e) ==
  /\ exc' = e
  /\ IF InTry(pc)
       THEN Return(FALSE, ErrorMessage(e)) /\ escaped' = escaped
       ELSE pc' = "returned" /\ result' = result /\ escaped' = TRUE

(* ------------------------------ actions -------------------------------- *)
\* a caller invokes invert_colors(input_path, output_path)
Call(inp, out) ==
  /\ pc \in {"idle", "returned"}
  /\ ~escaped
  /\ calls < MaxCalls
  /\ calls' = calls + 1
  /\ input_path' = inp
  /\ output_arg' = out
  /\ output_path' = out.path
  /\ pdf_document' = NoDoc
  /\ output_pdf' = NoDoc
  /\ page_num' = -1
  /\ pix' = NoPix
  /\ img' = NoPix
  /\ result' = NoResult
  /\ fsAtCall' = fs
  /\ opens' = 0
  /\ writes' = <<>>
  /\ exc' = NoExc
  /\ pc' = "check_exists"
  /\ UNCHANGED <<fs, escaped, derivedBy>>

PathExistsAlways(p, disk) == TRUE

\* line 26: os.path.exists(input_path)
PathExists(p, disk) == p \in DOMAIN disk

\* lines 26-27: if not os.path.exists(input_path): return False, ...
CheckExists ==
  /\ pc = "check_exists"
  /\ IF ~PathExists(input_path, fs)
       THEN Return(FALSE, <<MsgNotFound, input_path>>)
       ELSE pc' = "check_ext" /\ result' = result
  /\ UNCHANGED <<fs, calls, input_path, output_arg, output_path, pdf_document,
                 output_pdf, page_num, pix, img, escaped, fsAtCall, opens, writes,
                 derivedBy, exc>>

\* lines 29-30: if not input_path.lower().endswith('.pdf'): return False, ...
CheckExt ==
  /\ pc = "check_ext"
  /\ IF ~HasPdfExtension(input_path)
       THEN Return(FALSE, <<MsgMustBePdf, <<>>>>)
       ELSE pc' = "derive" /\ result' = result
  /\ UNCHANGED <<fs, calls, input_path, output_arg, output_path, pdf_document,
                 output_pdf, page_num, pix, img, escaped, fsAtCall, opens, writes,
                 derivedBy, exc>>

\* lines 33-35: derive the output path when none was given
DeriveOutput ==
  /\ pc = "derive"
  /\ IF output_arg.given
       THEN UNCHANGED <<output_path, derivedBy>>
       ELSE /\ output_path' = DerivedOutputPath(input_path)
            /\ derivedBy' = [derivedBy EXCEPT ![input_path] = @ \cup {output_path'}]
  /\ pc' = "open_in"
  /\ UNCHANGED <<fs, calls, input_path, output_arg, pdf_document, output_pdf,
                 page_num, pix, img, result, escaped, fsAtCall, opens, writes, exc>>

\* line 38: pdf_document = fitz.open(input_path); a file that is no PDF raises
OpenInput ==
  /\ pc = "open_in"
  /\ input_path \in DOMAIN fs
  /\ fs[input_path].kind = "pdf"
  /\ pdf_document' = [state |-> "open", pages |-> fs[input_path].pages]
  /\ opens' = opens + 1
  /\ pc' = "open_out"
  /\ UNCHANGED <<fs, calls, input_path, output_arg, output_path, output_pdf,
                 page_num, pix, img, result, escaped, fsAtCall, writes, derivedBy, exc>>

\* line 39: output_pdf = fitz.open()
OpenOutput ==
  /\ pc = "open_out"
  /\ output_pdf' = [state |-> "open", pages |-> <<>>]
  /\ opens' = opens + 1
  /\ pc' = "loop"
  /\ UNCHANGED <<fs, calls, input_path, output_arg, output_path, pdf_document,
                 page_num, pix, img, result, escaped, fsAtCall, writes, derivedBy, exc>>

\* line 42: page_num takes the next value of range(page_count), or the loop ends
LoopHead ==
  /\ pc = "loop"
  /\ LET rest == {n \in PageRange(pdf_document) : n > page_num}
     IN  IF rest = {}
           THEN pc' = "save" /\ page_num' = page_num
           ELSE /\ page_num' = CHOOSE n \in rest : \A m \in rest : n <= m
                /\ pc' = "render"
  /\ UNCHANGED <<fs, calls, input_path, output_arg, output_path, pdf_document,
                 output_pdf, pix, img, result, escaped, fsAtCall, opens, writes,
                 derivedBy, exc>>

\* lines 43-50: page = pdf_document[page_num]; pix = page.get_pixmap(...)
Render ==
  /\ pc = "render"
  /\ pix' = GetPixmap(PageAt(pdf_document, page_num))
  /\ pc' = "invert"
  /\ UNCHANGED <<fs, calls, input_path, output_arg, output_path, pdf_document,
                 output_pdf, page_num, img, result, escaped, fsAtCall, opens, writes,
                 derivedBy, exc>>

\* lines 53-58: inverted_img = ImageOps.invert(img), encoded as PNG
InvertStep ==
  /\ pc = "invert"
  /\ img' = InvertImage(pix)
  /\ pc' = "new_page"
  /\ UNCHANGED <<fs, calls, input_path, output_arg, output_path, pdf_document,
                 output_pdf, page_num, pix, result, escaped, fsAtCall, opens, writes,
                 derivedBy, exc>>

\* lines 61-62: new_page = output_pdf.new_page(width=..., height=...)
NewPageStep ==
  /\ pc = "new_page"
  /\ output_pdf' = AddPage(output_pdf, NewPage(PageAt(pdf_document, page_num), img, page_num))
  /\ pc' = "insert_image"
  /\ UNCHANGED <<fs, calls, input_path, output_arg, output_path, pdf_document,
                 page_num, pix, img, result, escaped, fsAtCall, opens, writes,
                 derivedBy, exc>>

\* line 63: new_page.insert_image(new_page.rect, stream=img_byte_arr)
InsertImageStep ==
  /\ pc = "insert_image"
  /\ output_pdf' = [output_pdf EXCEPT
                      !.pages[Len(output_pdf.pages)] = InsertImageInto(@, img)]
  /\ pc' = AfterPage
  /\ UNCHANGED <<fs, calls, input_path, output_arg, output_path, pdf_document,
                 page_num, pix, img, result, escaped, fsAtCall, opens, writes,
                 derivedBy, exc>>

SaveRefusesExisting(disk, path) == path \notin DOMAIN disk

\* line 66: save() creates the file or overwrites the one that is there
SaveAccepts(disk, path) == TRUE

\* line 66: output_pdf.save(output_path) completes: the file at output_path
\* now holds the output document, whatever was there before
Save ==
  /\ pc = "save"
  /\ SaveAccepts(fs, output_path)
  /\ fs' = WriteFile(fs, output_path, SavedFile(output_pdf))
  /\ writes' = Append(writes, output_path)
  /\ pc' = "close_out"
  /\ UNCHANGED <<calls, input_path, output_arg, output_path, pdf_document,
                 output_pdf, page_num, pix, img, result, escaped, fsAtCall, opens,
                 derivedBy, exc>>

\* line 66: output_pdf.save(output_path) raises, before it wrote anything
\* (partial = FALSE: a refused document or path) or after it began writing
\* the file (partial = TRUE: the write broke off); the routine saves straight
\* to output_path, so what was written stays there
SaveRaises(e, partial) ==
  /\ pc = "save"
  /\ IF partial
       THEN /\ fs' = WriteFile(fs, output_path, PartialFile)
            /\ writes' = Append(writes, output_path)
       ELSE UNCHANGED <<fs, writes>>
  /\ Handle(e)
  /\ UNCHANGED <<calls, input_path, output_arg, output_path, pdf_document,
                 output_pdf, page_num, pix, img, fsAtCall, opens, derivedBy>>

\* a library call of lines 38-63 raises
Raise(e) ==
  /\ pc \in RaisingSteps \ {"save"}
  /\ Handle(e)
  /\ UNCHANGED <<fs, calls, input_path, output_arg, output_path, pdf_document,
                 output_pdf, page_num, pix, img, fsAtCall, opens, writes, derivedBy>>

\* line 67: output_pdf.close()
CloseOutput ==
  /\ pc = "close_out"
  /\ output_pdf' = [output_pdf EXCEPT !.state = "closed"]
  /\ pc' = "close_in"
  /\ UNCHANGED <<fs, calls, input_path, output_arg, output_path, pdf_document,
                 page_num, pix, img, result, escaped, fsAtCall, opens, writes,
                 derivedBy, exc>>

\* line 68: pdf_document.close()
CloseInput ==
  /\ pc = "close_in"
  /\ pdf_document' = [pdf_document EXCEPT !.state = "closed"]
  /\ pc' = "return_ok"
  /\ UNCHANGED <<fs, calls, input_path, output_arg, output_path, output_pdf,
                 page_num, pix, img, result, escaped, fsAtCall, opens, writes,
                 derivedBy, exc>>

\* line 70: return True, f"Successfully inverted PDF colors: {output_path}"
ReturnSuccess ==
  /\ pc = "return_ok"
  /\ Return(TRUE, <<MsgSuccess, output_path>>)
  /\ UNCHANGED <<fs, calls, input_path, output_arg, output_path, pdf_document,
                 output_pdf, page_num, pix, img, escaped, fsAtCall, opens, writes,
                 derivedBy, exc>>

\* the output_path arguments a caller may pass: None or a path
OutputArgs == {NoOutput, [given |-> TRUE, path |-> OtherOutput]}

Next ==
  \/ \E inp \in InputPaths : \E out \in OutputArgs : Call(inp, out)
  \/ CheckExists
  \/ CheckExt
  \/ DeriveOutput
  \/ OpenInput
  \/ OpenOutput
  \/ LoopHead
  \/ Render
  \/ InvertStep
  \/ NewPageStep
  \/ InsertImageStep
  \/ Save
  \/ \E e \in ExcTexts : \E partial \in BOOLEAN : SaveRaises(e, partial)
  \/ \E e \in ExcTexts : Raise(e)
  \/ CloseOutput
  \/ CloseInput
  \/ ReturnSuccess

Spec == Init /\ [][Next]_vars

(* ------------------------------ claims --------------------------------- *)
Returned == pc = "returned" /\ result.returned
Succeeded == Returned /\ result.flag
Failed == Returned /\ ~result.flag

\* the image of output page i has been inserted
HasImage(i) == output_pdf.pages[i].bitmap # NoPix

\* every page of the input has been turned into a finished output page
AllPagesProcessed ==
  /\ Len(output_pdf.pages) = Len(pdf_document.pages)
  /\ \A i \in 1..Len(output_pdf.pages) : output_pdf.pages[i].bitmap # NoPix

\* C1: after a successful call on an N-page input, the saved output has
\* exactly N pages and output page i was made from input page i.
C1_PagesInOrder ==
  Succeeded =>
    LET inPages == fsAtCall[input_path].pages
        N == Len(inPages)
    IN  /\ output_path \in DOMAIN fs
        /\ fs[output_path].kind = "pdf"
        /\ Len(fs[output_path].pages) = N
        /\ Len(output_pdf.pages) = N
        /\ \A i \in 0..(N - 1) :
             /\ output_pdf.pages[i + 1].src = i
             /\ fs[output_path].pages[i + 1] = SavedPage(output_pdf.pages[i + 1])
             /\ fs[output_path].pages[i + 1].w = inPages[i + 1].w
             /\ fs[output_path].pages[i + 1].h = inPages[i + 1].h

C1_Witness ==
  /\ Succeeded
  /\ Len(fsAtCall[input_path].pages) = 2
  /\ fsAtCall[input_path].pages[1] # fsAtCall[input_path].pages[2]
  /\ Len(fs[output_path].pages) = 2

\* C2: every output page has the width and height of the input page at the
\* same index, not those of the 2x bitmap, and its image covers the whole page.
C2_Geometry ==
  /\ \A i \in 1..Len(output_pdf.pages) :
       LET op == output_pdf.pages[i]
           ip == pdf_document.pages[i]
       IN  /\ i <= Len(pdf_document.pages)
           /\ op.w = ip.w
           /\ op.h = ip.h
           /\ HasImage(i) =>
                /\ op.rect = [x0 |-> 0, y0 |-> 0, x1 |-> ip.w, y1 |-> ip.h]
                /\ op.bitmap.w = Scale * ip.w
                /\ op.bitmap.h = Scale * ip.h
  /\ Succeeded =>
       \A i \in 1..Len(fs[output_path].pages) :
         /\ fs[output_path].pages[i].w = fsAtCall[input_path].pages[i].w
         /\ fs[output_path].pages[i].h = fsAtCall[input_path].pages[i].h

C2_Witness ==
  /\ Succeeded
  /\ \E i \in 1..Len(output_pdf.pages) :
       /\ output_pdf.pages[i].w = 3
       /\ output_pdf.pages[i].h = 4
       /\ output_pdf.pages[i].bitmap.w = 6
       /\ output_pdf.pages[i].bitmap.h = 8

\* C3: a call whose input path does not exist returns failure with the
\* not-found message, whatever the extension and the output argument; it
\* opens no document and leaves the disk as it was.
C3_NotFound ==
  (calls > 0 /\ input_path \notin DOMAIN fsAtCall) =>
    /\ pc \in {"check_exists", "returned"}
    /\ opens = 0
    /\ pdf_document = NoDoc
    /\ output_pdf = NoDoc
    /\ fs = fsAtCall
    /\ writes = <<>>
    /\ pc = "returned" =>
         result = [returned |-> TRUE, flag |-> FALSE,
                   msg |-> <<MsgNotFound, input_path>>]

C3_Witness ==
  /\ Returned
  /\ input_path \notin DOMAIN fsAtCall
  /\ input_path = <<"d", ".", "x", "/", "a", ".", "t", "x", "t">>
  /\ output_arg.given

\* the four-character endings that are ".pdf" in some letter case
PdfEndings == {<<".", a, b, c>> : a \in {"p", "P"}, b \in {"d", "D"}, c \in {"f", "F"}}
EndsInPdfAnyCase(p) == \E e \in PdfEndings : EndsWith(p, e)

MustBePdfResult == [returned |-> TRUE, flag |-> FALSE, msg |-> <<MsgMustBePdf, <<>>>>]

\* C4 as stated: every input path that does not end in ".pdf" in any letter
\* case gets the must-be-a-PDF failure and no output file is created.
C4_Original ==
  (Returned /\ ~EndsInPdfAnyCase(input_path)) =>
    /\ result = MustBePdfResult
    /\ fs = fsAtCall

\* C4 amended: every EXISTING input path that does not end in ".pdf" in any
\* letter case gets the must-be-a-PDF failure, with no document opened and the
\* disk left as it was; a path ending in ".pdf" in any letter case never gets it.
C4_ExistingNonPdf ==
  /\ (calls > 0 /\ input_path \in DOMAIN fsAtCall /\ ~EndsInPdfAnyCase(input_path)) =>
       /\ pc \in {"check_exists", "check_ext", "returned"}
       /\ opens = 0
       /\ fs = fsAtCall
       /\ pc = "returned" => result = MustBePdfResult
  /\ (Returned /\ EndsInPdfAnyCase(input_path)) => result # MustBePdfResult

C4_Witness ==
  /\ Returned
  /\ input_path = <<"a", ".", "t", "x", "t">>
  /\ input_path \in DOMAIN fsAtCall
  /\ result = MustBePdfResult

\* the call has passed lines 33-35, so output_path is resolved
Resolved ==
  \/ pc \in TrySteps \ {"check_exists", "check_ext", "derive"}
  \/ Returned /\ result.msg[1] \in {MsgSuccess, MsgError}

\* C5 as stated: with no output path given the resolved output path is the
\* input path without its extension followed by "_inverted.pdf"; a given
\* output path is used unchanged.
C5_Original ==
  Resolved =>
    IF output_arg.given
      THEN output_path = output_arg.path
      ELSE output_path = SplitExt(input_path)[1] \o SuffixInverted \o DotPdf

\* C5 amended: with no output path given the resolved output path is the input
\* path with "_inverted" inserted in front of its final four characters (the
\* ".pdf" ending exactly as written, in whatever letter case), or appended at
\* the end when the file name has nothing but dots in front of that ending;
\* the directory part is the input's; a given output path is used unchanged.
C5_DerivedPath ==
  Resolved =>
    IF output_arg.given
      THEN output_path = output_arg.path
      ELSE LET n == Len(input_path)
               front == SubSeq(input_path, 1, n - 4)
               ending == SubSeq(input_path, n - 3, n)
               dirLen == RFind(input_path, Sep)
           IN  /\ ending \in PdfEndings
               /\ IF \E k \in (dirLen + 1)..(n - 4) : input_path[k] # "."
                    THEN output_path = front \o SuffixInverted \o ending
                    ELSE output_path = input_path \o SuffixInverted
               /\ SubSeq(output_path, 1, dirLen) = SubSeq(input_path, 1, dirLen)
               /\ \A k \in (dirLen + 1)..Len(output_path) : output_path[k] # Sep

C5_Witness ==
  /\ Succeeded
  /\ ~output_arg.given
  /\ input_path = <<"a", ".", "P", "d", "f">>
  /\ output_path = <<"a">> \o SuffixInverted \o <<".", "P", "d", "f">>
  /\ output_path \in DOMAIN fs

\* C6: no exception reaches the caller; a call that returns returns a flag and
\* a message; a library failure gives False and the failure's text; True is
\* returned only with the save step completed.
C6_NoEscape ==
  /\ ~escaped
  /\ pc = "returned" =>
       /\ result.returned
       /\ result.flag \in BOOLEAN
       /\ result.msg[1] \in {MsgNotFound, MsgMustBePdf, MsgSuccess, MsgError}
       /\ exc # NoExc => result = [returned |-> TRUE, flag |-> FALSE,
                                   msg |-> <<MsgError, exc>>]
       /\ result.flag =>
            /\ exc = NoExc
            /\ result.msg = <<MsgSuccess, output_path>>
            /\ writes = <<output_path>>
            /\ fs[output_path] = SavedFile(output_pdf)

C6_Witness ==
  /\ Failed
  /\ exc \in ExcTexts
  /\ result.msg = <<MsgError, exc>>
  /\ AllPagesProcessed
  /\ Len(output_pdf.pages) = 2

\* C7 as stated: a call that returns failure has written no file, not even a
\* partial one; a call that returns success has written exactly one file, at
\* the resolved output path, after every page was processed.
C7_Original ==
  Returned =>
    /\ Len(writes) <= 1
    /\ ~result.flag => (writes = <<>> /\ fs = fsAtCall)
    /\ result.flag => (writes = <<output_path>> /\ AllPagesProcessed)

\* C7 amended: only the save step writes, at most once per call, only to the
\* resolved output path and only after every page was processed; a call that
\* fails before its save step has written nothing; a call that returns success
\* has written exactly one file, the output document; a call whose save step
\* itself raises may leave a partial file at the output path and touches
\* nothing else.
C7_SingleWrite ==
  /\ Len(writes) <= 1
  /\ writes = <<>> => fs = fsAtCall
  /\ writes # <<>> =>
       /\ writes = <<output_path>>
       /\ AllPagesProcessed
       /\ pc \in {"close_out", "close_in", "return_ok", "returned"}
       /\ \A q \in DOMAIN fsAtCall : q # output_path => (q \in DOMAIN fs /\ fs[q] = fsAtCall[q])
       /\ DOMAIN fs = DOMAIN fsAtCall \cup {output_path}
  /\ pc \in {"close_out", "close_in", "return_ok"} \/ Succeeded =>
       /\ writes = <<output_path>>
       /\ fs[output_path] = SavedFile(output_pdf)
  /\ Failed /\ writes # <<>> =>
       /\ exc # NoExc
       /\ fs[output_path] = PartialFile

C7_Witness ==
  /\ Failed
  /\ Len(pdf_document.pages) = 2
  /\ Len(output_pdf.pages) = 1
  /\ output_pdf.pages[1].bitmap # NoPix
  /\ page_num = 1
  /\ writes = <<>>
  /\ fs = fsAtCall

\* C8: calls with the same input path and no output path all resolve to one
\* derived path, different from the input; such a call changes no file but
\* that one; its save is never refused because the file is already there, and
\* a successful call leaves its own document in the file.
C8_SameDerivedPath ==
  /\ \A p \in InputPaths : Cardinality(derivedBy[p]) <= 1 /\ p \notin derivedBy[p]
  /\ (calls > 0 /\ ~output_arg.given) =>
       /\ DOMAIN fs \subseteq DOMAIN fsAtCall \cup derivedBy[input_path]
       /\ \A q \in DOMAIN fsAtCall \ derivedBy[input_path] :
            q \in DOMAIN fs /\ fs[q] = fsAtCall[q]
       /\ input_path \in DOMAIN fsAtCall =>
            (input_path \in DOMAIN fs /\ fs[input_path] = fsAtCall[input_path])
       /\ pc = "save" => ENABLED Save
       /\ Succeeded =>
            /\ derivedBy[input_path] = {output_path}
            /\ fs[output_path] = SavedFile(output_pdf)

C8_Witness ==
  /\ Succeeded
  /\ ~output_arg.given
  /\ calls = 2
  /\ output_path \in DOMAIN fsAtCall
  /\ fsAtCall[output_path].kind = "pdf"
  /\ DOMAIN fs = DOMAIN fsAtCall

\* C9: the inversion maps every channel value v to max - v, so black becomes
\* white and white black, and inverting twice gives v back.
C9_Inversion ==
  /\ pc = "invert" =>
       \A v \in 0..ChannelMax :
         /\ Invert(v) = ChannelMax - v
         /\ Invert(v) \in 0..ChannelMax
         /\ Invert(Invert(v)) = v
  /\ pc \in {"new_page", "insert_image"} =>
       /\ img.px = ChannelMax - pix.px
       /\ InvertImage(img) = pix
  /\ \A i \in 1..Len(output_pdf.pages) :
       HasImage(i) =>
         LET shown == output_pdf.pages[i].bitmap.px
             source == pdf_document.pages[i].px
         IN  /\ shown = ChannelMax - source
             /\ source = 0 => shown = ChannelMax
             /\ source = ChannelMax => shown = 0

C9_Witness ==
  /\ Succeeded
  /\ \E i, j \in 1..Len(output_pdf.pages) :
       /\ pdf_document.pages[i].px = 0
       /\ fs[output_path].pages[i].px = ChannelMax
       /\ pdf_document.pages[j].px = ChannelMax
       /\ fs[output_path].pages[j].px = 0

\* C10 as stated: whenever a call returns after having opened the input and
\* the output document, both are closed, the output written once before.
C10_Original ==
  (pc = "returned" /\ pdf_document.state # "none" /\ output_pdf.state # "none") =>
    /\ pdf_document.state = "closed"
    /\ output_pdf.state = "closed"
    /\ writes = <<output_path>>

====
